---- MODULE Spec2Model ----
(***************************************************************************)
(* Live auction system: the bid-placement transaction of                   *)
(* server/controllers/bidController.js and the auction operations of       *)
(* server/controllers/auctionController.js, over the Auction and Bid       *)
(* collections of a MongoDB store.                                         *)
(*                                                                         *)
(* The committed store is (auctions, bids).  A placeBid request runs in a  *)
(* multi-document transaction: it reads a snapshot, stages its writes and  *)
(* applies them at commit; a write to a document that was modified after   *)
(* the snapshot, or that another open transaction has written, raises a    *)
(* write conflict.  Writes outside a transaction wait for the open         *)
(* transaction that has written the document.                              *)
(***************************************************************************)
EXTENDS Integers, Sequences, FiniteSets, TLC

\* ------------------------------------------------------------------ bounds
MaxAuctions == 1
MaxBids == 2
MaxTicks == 3
MaxViews == 2
MaxInFlight == 2
TickMs == 1800000
MaxClock == 6

\* ------------------------------------------------------------ input domains
Users == {"u1", "u2", "adm"}
AuctionIds == 1 .. MaxAuctions
BadId == 0
Amounts == {0, 40, 100, 150}
StartingBids == {50, 120}
Procs == {1, 2}
UpdProcs == {1, 2}
LikeProcs == {1, 2}
ViewProcs == {1, 2}
Undef == -1
StartTimes == {Undef, 2}
EndTimes == {3}
Likers == {"u1"}
Sellers == {"u1", "adm"}

\* ------------------------------------------------------------------ values
\* An id is an ObjectId or its string form; === never equates the two.
Oid(u) == [t |-> "ObjectId", v |-> u]
NullId == [t |-> "null", v |-> "null"]
toString(x) == [t |-> "string", v |-> x.v]
StrictEq(x, y) == x = y

IsAdminUser(u) == u = "adm"

\* protect: req.user is the user document as a plain object with id = _id.
protect(u) == [id |-> Oid(u), isAdmin |-> IsAdminUser(u)]

isValidObjectId(id) == id # BadId

oneHour == 60 * 60 * 1000

\* status if the end instant itself still counted as inside the window.
statusEndInclusive(a, t) ==
  IF t < a.startTime THEN "upcoming"
  ELSE IF t >= a.startTime /\ t <= a.endTime
       THEN IF (a.endTime - t) * TickMs < oneHour THEN "ending-soon" ELSE "active"
       ELSE "ended"

\* status if exactly one hour left already counted as ending soon.
statusHourInclusive(a, t) ==
  IF t < a.startTime THEN "upcoming"
  ELSE IF t >= a.startTime /\ t < a.endTime
       THEN IF (a.endTime - t) * TickMs <= oneHour THEN "ending-soon" ELSE "active"
       ELSE "ended"

\* status if the hour test were the other way round.
statusHourReversed(a, t) ==
  IF t < a.startTime THEN "upcoming"
  ELSE IF t >= a.startTime /\ t < a.endTime
       THEN IF (a.endTime - t) * TickMs < oneHour THEN "active" ELSE "ending-soon"
       ELSE "ended"

\* AuctionSchema.virtual('status'), for stored (valid) dates, at tick t.
status(a, t) ==
  IF t < a.startTime THEN "upcoming"
  ELSE IF t >= a.startTime /\ t < a.endTime
       THEN IF (a.endTime - t) * TickMs < oneHour THEN "ending-soon" ELSE "active"
       ELSE "ended"

\* ------------------------------------------------------------------- state
\* now: the wall clock, in ticks of TickMs milliseconds.
\* auctions, bids: the committed Auction and Bid collections (bids in commit order).
\* bid[p]: the placeBid request in flight in slot p; upd[s]: the updateAuction
\* request in flight in slot s; del: the deleteAuction in flight; like[s]: the
\* toggleLikeAuction request in slot s, in flight or just completed; view[s]:
\* the incrementViews that getAuctionById started in slot s.
\* out: the response sent by the last step, if it sent one.
VARIABLES now, auctions, bids, nextId, bid, upd, del, like, view, out

vars == <<now, auctions, bids, nextId, bid, upd, del, like, view, out>>

db == <<auctions, bids>>

IdleBid == [pc |-> "idle", user |-> "u1", auction |-> BadId, amount |-> 0,
            cur |-> 0, stale |-> FALSE]
NoSet == [k \in {"startingBid", "currentBid", "startTime", "endTime"} |-> Undef]
IdleUpd == [pc |-> "idle", user |-> "u1", auction |-> BadId, set |-> NoSet]
IdleDel == [pc |-> "idle", user |-> "u1", auction |-> BadId]
IdleLike == [pc |-> "idle", user |-> "u1", auction |-> BadId, op |-> "none"]
IdleView == [pc |-> "idle", auction |-> BadId, seen |-> 0]
NoOut == [op |-> "none", code |-> 0, reason |-> "none", val |-> 0]

Response(o, c, why, v) == [op |-> o, code |-> c, reason |-> why, val |-> v]

Init ==
  /\ now = 1
  /\ auctions = <<>>
  /\ bids = <<>>
  /\ nextId = 1
  /\ bid = [p \in Procs |-> IdleBid]
  /\ upd = [s \in UpdProcs |-> IdleUpd]
  /\ del = IdleDel
  /\ like = [s \in LikeProcs |-> IdleLike]
  /\ view = [s \in ViewProcs |-> IdleView]
  /\ out = NoOut

\* The wall clock advances.
Tick ==
  /\ now < MaxTicks
  /\ now' = now + 1
  /\ out' = NoOut
  /\ UNCHANGED <<auctions, bids, nextId, bid, upd, del, like, view>>

\* ------------------------------------------------------ store primitives
Exists(id) == id \in DOMAIN auctions

\* An open transaction has written (and so locked) the auction document.
LockedBy(p, id) == bid[p].pc = "written" /\ bid[p].auction = id

Locked(id) == \E p \in Procs : LockedBy(p, id)

\* A committed write to auction id invalidates the snapshot of every other
\* open transaction that has read it.
MarkStale(b, id, writer) ==
  [p \in Procs |->
     IF p # writer /\ b[p].pc = "validated" /\ b[p].auction = id
     THEN [b[p] EXCEPT !.stale = TRUE] ELSE b[p]]

BidsOn(id) == SelectSeq(bids, LAMBDA r : r.auction = id)

\* The number of requests in flight.
InFlight ==
  Cardinality({p \in Procs : bid[p].pc # "idle"})
    + Cardinality({s \in UpdProcs : upd[s].pc # "idle"}) + (IF del.pc # "idle" THEN 1 ELSE 0)
    + Cardinality({s \in LikeProcs : like[s].pc = "write"})
    + Cardinality({s \in ViewProcs : view[s].pc # "idle"})

\* --------------------------------------------------------- createAuction
NewAuction(u, sb, st, et) ==
  [seller |-> protect(u).id, startingBid |-> sb, currentBid |-> sb,
   highestBidder |-> NullId, bidCount |-> 0, views |-> 0, likedBy |-> <<>>,
   startTime |-> st, endTime |-> et]

\* createAuction if only the order of the two dates were checked.
createAuctionOrderOnly(u, sb, st, et) ==
  LET auctionStartTime == IF st # Undef THEN st ELSE now
      auctionEndTime == et
  IN IF auctionEndTime <= auctionStartTime
     THEN /\ out' = NoOut
          /\ UNCHANGED <<now, auctions, bids, nextId, bid, upd, del, like, view>>
     ELSE /\ nextId <= MaxAuctions
          /\ auctions' = auctions @@
               (nextId :> NewAuction(u, sb, auctionStartTime, auctionEndTime))
          /\ nextId' = nextId + 1
          /\ out' = NoOut
          /\ UNCHANGED <<now, bids, bid, upd, del, like, view>>

createAuction(u, sb, st, et) ==
  LET auctionStartTime == IF st # Undef THEN st ELSE now
      auctionEndTime == et
  IN IF \/ auctionEndTime <= auctionStartTime
        \/ (auctionEndTime <= now /\ auctionStartTime <= now)
     THEN /\ out' = NoOut
          /\ UNCHANGED <<now, auctions, bids, nextId, bid, upd, del, like, view>>
     ELSE /\ nextId <= MaxAuctions
          /\ auctions' = auctions @@
               (nextId :> NewAuction(u, sb, auctionStartTime, auctionEndTime))
          /\ nextId' = nextId + 1
          /\ out' = NoOut
          /\ UNCHANGED <<now, bids, bid, upd, del, like, view>>

CreateAuction ==
  \E u \in Sellers, sb \in StartingBids, st \in StartTimes, et \in EndTimes :
    createAuction(u, sb, st, et)

\* -------------------------------------------------------------- placeBid
\* The seller test of placeBid: auction.seller.toString() === bidderId.
IsSellerBidding(a, bidderId) == StrictEq(toString(a.seller), bidderId)

\* The amount test if an equal amount passed it.
BidTooLowNonStrict(a, amt) == amt < a.currentBid

\* The amount test of placeBid: amount <= auction.currentBid rejects.
BidTooLow(a, amt) == amt <= a.currentBid

\* The checks of placeBid up to the write phase, on the parameters and on the
\* auction read in the transaction: the rejection, or NoOut to go on.
Validate(u, id, amt) ==
  IF ~isValidObjectId(id) THEN Response("placeBid", 400, "InvalidId", 0)
  ELSE IF amt <= 0 THEN Response("placeBid", 400, "InvalidAmount", 0)
  ELSE IF ~Exists(id) THEN Response("placeBid", 404, "NotFound", 0)
  ELSE LET a == auctions[id]
           auctionStatus == status(a, now)
       IN IF IsSellerBidding(a, protect(u).id)
          THEN Response("placeBid", 403, "Forbidden", 0)
          ELSE IF auctionStatus # "active" /\ auctionStatus # "ending-soon"
          THEN Response("placeBid", 400, auctionStatus, 0)
          ELSE IF BidTooLow(a, amt)
          THEN Response("placeBid", 400, "BidTooLow", a.currentBid)
          ELSE IF a.bidCount = 0 /\ amt < a.startingBid
          THEN Response("placeBid", 400, "BelowStartingBid", a.startingBid)
          ELSE NoOut

\* placeBidRead if the auction were updated before the checks, outside the
\* transaction.
placeBidReadWriteFirst(p, u, id, amt) ==
  /\ bid[p].pc = "idle"
  /\ \A q \in Procs : q < p => bid[q].pc # "idle"
  /\ InFlight < MaxInFlight
  /\ out' = Validate(u, id, amt)
  /\ bid' = [bid EXCEPT ![p] =
       IF Validate(u, id, amt) # NoOut THEN IdleBid
       ELSE [pc |-> "validated", user |-> u, auction |-> id, amount |-> amt,
             cur |-> auctions[id].currentBid, stale |-> FALSE]]
  /\ auctions' = IF Exists(id) /\ amt > 0
                 THEN [auctions EXCEPT ![id].currentBid = amt]
                 ELSE auctions
  /\ UNCHANGED <<now, bids, nextId, upd, del, like, view>>

\* Request arrival, startTransaction, Auction.findById in the session and the
\* validations: a rejection, or the transaction goes on with its snapshot.
placeBidRead(p, u, id, amt) ==
  /\ bid[p].pc = "idle"
  /\ \A q \in Procs : q < p => bid[q].pc # "idle"
  /\ InFlight < MaxInFlight
  /\ out' = Validate(u, id, amt)
  /\ bid' = [bid EXCEPT ![p] =
       IF Validate(u, id, amt) # NoOut THEN IdleBid
       ELSE [pc |-> "validated", user |-> u, auction |-> id, amount |-> amt,
             cur |-> auctions[id].currentBid, stale |-> FALSE]]
  /\ UNCHANGED <<now, auctions, bids, nextId, upd, del, like, view>>

\* The conflict test if only a concurrent uncommitted write counted.
WriteConflictLockOnly(p) == Locked(bid[p].auction)

\* A write in the transaction meets a document that changed after the
\* snapshot, or that another open transaction has written.
WriteConflict(p) == bid[p].stale \/ Locked(bid[p].auction)

\* Auction.findByIdAndUpdate and newBid.save in the session: both staged, or
\* a write conflict that the catch block turns into abortTransaction and 500.
placeBidWrite(p) ==
  /\ bid[p].pc = "validated"
  /\ IF WriteConflict(p)
     THEN /\ bid' = [bid EXCEPT ![p] = IdleBid]
          /\ out' = Response("placeBid", 500, "WriteConflict", 0)
     ELSE /\ bid' = [bid EXCEPT ![p].pc = "written"]
          /\ out' = NoOut
  /\ UNCHANGED <<now, auctions, bids, nextId, upd, del, like, view>>

\* The auction update if it did not record the bidder.
BidUpdateNoBidder(a, bidderId, amt) ==
  [a EXCEPT !.currentBid = amt, !.bidCount = a.bidCount + 1]

\* The auction update of placeBid: $set currentBid, highestBidder; $inc bidCount.
BidUpdate(a, bidderId, amt) ==
  [a EXCEPT !.currentBid = amt, !.highestBidder = bidderId,
            !.bidCount = a.bidCount + 1]

NewBid(id, bidderId, amt) == [auction |-> id, bidder |-> bidderId, amount |-> amt]

\* What commitTransaction makes visible: both staged writes, together.
CommitAuctions(p) ==
  [auctions EXCEPT ![bid[p].auction] =
     BidUpdate(@, protect(bid[p].user).id, bid[p].amount)]

\* The commit if the Bid insert were not part of it.
CommitBidsLost(p) == bids

CommitBids(p) ==
  Append(bids, NewBid(bid[p].auction, protect(bid[p].user).id, bid[p].amount))

\* The abort if the auction update had been written outside the transaction.
AbortAuctionsPartial(p) ==
  IF bid[p].pc = "written" THEN CommitAuctions(p) ELSE auctions

\* What abortTransaction leaves visible: none of the staged writes.
AbortAuctions(p) == auctions

AbortBids(p) == bids

placeBidCommit(p) ==
  /\ bid[p].pc = "written"
  /\ Len(bids) < MaxBids
  /\ auctions' = CommitAuctions(p)
  /\ bids' = CommitBids(p)
  /\ bid' = [MarkStale(bid, bid[p].auction, p) EXCEPT ![p] = IdleBid]
  /\ out' = Response("placeBid", 201, "Created", bid[p].amount)
  /\ UNCHANGED <<now, nextId, upd, del, like, view>>

\* A storage failure in the write phase (update, insert or commit throws):
\* the catch block aborts the transaction and answers 500.
placeBidFail(p) ==
  /\ bid[p].pc \in {"validated", "written"}
  /\ auctions' = AbortAuctions(p)
  /\ bids' = AbortBids(p)
  /\ bid' = [bid EXCEPT ![p] = IdleBid]
  /\ out' = Response("placeBid", 500,
            IF bid[p].pc = "written" THEN "CommitFailed" ELSE "UpdateFailed", 0)
  /\ UNCHANGED <<now, nextId, upd, del, like, view>>

PlaceBid ==
  \E p \in Procs :
    \/ \E u \in Users, id \in AuctionIds \cup {BadId}, amt \in Amounts :
         placeBidRead(p, u, id, amt)
    \/ placeBidWrite(p)
    \/ placeBidCommit(p)
    \/ placeBidFail(p)

\* ---------------------------------------------------------- listAuctions
\* The status filter of listAuctions on an auction's dates, queried at t.
StatusFilter(S, a, t) ==
  IF S = "upcoming" THEN a.startTime > t
  ELSE IF S = "active" \/ S = "ending-soon" THEN a.startTime <= t /\ a.endTime > t
  ELSE IF S = "ended" THEN a.endTime <= t
  ELSE TRUE

\* listAuctions with query status = S: the ids of the auctions returned.
\* Without a sortBy the case branch assigns to the const sortOptions, which
\* throws, and the catch answers 500.
listAuctions(S, sortBy) ==
  IF ~sortBy /\ S \in {"upcoming", "active", "ending-soon", "ended"}
  THEN [code |-> 500, data |-> {}]
  ELSE [code |-> 200,
        data |-> {id \in DOMAIN auctions : StatusFilter(S, auctions[id], now)}]

\* ------------------------------------------------------------- getMyBids
\* The bids of the caller, each with the flag the map at the end computes:
\* false when the auction could not be populated, else
\* auction.highestBidder?.toString() === userId.
getMyBids(u) ==
  LET userId == protect(u).id
      mine == SelectSeq(bids, LAMBDA r : r.bidder = userId)
  IN [i \in 1 .. Len(mine) |->
        [bid |-> mine[i],
         isHighestBidder |->
           IF Exists(mine[i].auction)
           THEN /\ auctions[mine[i].auction].highestBidder # NullId
                /\ StrictEq(toString(auctions[mine[i].auction].highestBidder), userId)
           ELSE FALSE]]

\* --------------------------------------------------------- updateAuction
\* The fields an updateAuction request may carry that the model follows.
UpdateBody(sb, st, et) == [startingBid |-> sb, startTime |-> st, endTime |-> et]

UpdateBodies ==
  {UpdateBody(Undef, Undef, Undef), UpdateBody(50, Undef, Undef),
   UpdateBody(120, Undef, Undef), UpdateBody(Undef, 2, Undef),
   UpdateBody(Undef, Undef, 2), UpdateBody(Undef, 2, 2),
   UpdateBody(120, Undef, 2)}

\* The owner test if it let every authenticated user through.
NotAuthorizedNever(a, user) == a.seller = NullId /\ ~user.isAdmin

\* The owner test if it compared the two ids as ids.
NotAuthorizedById(a, user) == a.seller # user.id /\ ~user.isAdmin

\* The owner test of updateAuction and deleteAuction:
\* auction.seller.toString() !== userId && !isAdmin.
NotAuthorized(a, user) ==
  ~StrictEq(toString(a.seller), user.id) /\ ~user.isAdmin

\* The whitelist if it let the currentBid key through with startingBid.
allowedUpdatesWithCurrentBid(a, user, currentStatus) ==
  (IF \/ user.isAdmin
      \/ (currentStatus = "upcoming" /\ StrictEq(toString(a.seller), user.id))
   THEN {"endTime", "startTime"} ELSE {})
  \cup
  (IF \/ user.isAdmin
      \/ (/\ currentStatus = "upcoming"
          /\ StrictEq(toString(a.seller), user.id)
          /\ a.bidCount = 0)
   THEN {"startingBid", "currentBid"} ELSE {})

\* The whitelist of updateAuction, among the fields the model follows.
allowedUpdates(a, user, currentStatus) ==
  (IF \/ user.isAdmin
      \/ (currentStatus = "upcoming" /\ StrictEq(toString(a.seller), user.id))
   THEN {"endTime", "startTime"} ELSE {})
  \cup
  (IF \/ user.isAdmin
      \/ (/\ currentStatus = "upcoming"
          /\ StrictEq(toString(a.seller), user.id)
          /\ a.bidCount = 0)
   THEN {"startingBid"} ELSE {})

\* req.body after the business-logic checks: a changed startingBid on an
\* auction without bids adds the key currentBid.
BodyWithCurrentBid(a, body) ==
  [startingBid |-> body.startingBid,
   startTime |-> body.startTime,
   endTime |-> body.endTime,
   currentBid |-> IF /\ body.startingBid # Undef
                     /\ a.startingBid # body.startingBid
                     /\ a.bidCount = 0
                  THEN body.startingBid ELSE Undef]

\* The forEach over req.body: the value the document gets for key k.
Assigned(a, body, allowed, k) ==
  IF body[k] # Undef /\ k \in allowed THEN body[k] ELSE a[k]

\* The modified paths that auction.save() sends as $set (Undef: not sent).
Modified(a, body, allowed) ==
  [k \in {"startingBid", "currentBid", "startTime", "endTime"} |->
     IF Assigned(a, body, allowed, k) # a[k]
     THEN Assigned(a, body, allowed, k) ELSE Undef]

\* updateAuction up to auction.save(): the rejection, or 200 with the $set.
UpdateDecide(u, id, body) ==
  IF ~isValidObjectId(id) THEN [code |-> 400, reason |-> "InvalidId"]
  ELSE IF ~Exists(id) THEN [code |-> 404, reason |-> "NotFound"]
  ELSE
    LET a == auctions[id]
        user == protect(u)
        currentStatus == status(a, now)
        allowed == allowedUpdates(a, user, currentStatus)
        timesAllowed == "endTime" \in allowed
        newEndTime == IF body.endTime # Undef THEN body.endTime ELSE a.endTime
        newStartTime == IF body.startTime # Undef THEN body.startTime ELSE a.startTime
        b2 == BodyWithCurrentBid(a, body)
    IN IF NotAuthorized(a, user) THEN [code |-> 403, reason |-> "Forbidden"]
       ELSE IF currentStatus = "ended" /\ ~user.isAdmin
       THEN [code |-> 400, reason |-> "Ended"]
       ELSE IF /\ body.startingBid # Undef
               /\ a.startingBid # body.startingBid
               /\ \/ currentStatus = "active"
                  \/ currentStatus = "ended"
                  \/ a.bidCount > 0
               /\ ~user.isAdmin
       THEN [code |-> 400, reason |-> "StartingBidLocked"]
       ELSE IF timesAllowed /\ newEndTime <= newStartTime
       THEN [code |-> 400, reason |-> "EndBeforeStart"]
       ELSE IF Assigned(a, b2, allowed, "endTime") <= Assigned(a, b2, allowed, "startTime")
       THEN [code |-> 400, reason |-> "ValidationError"]
       ELSE [code |-> 200, reason |-> "OK", set |-> Modified(a, b2, allowed)]

NothingModified(set) == \A k \in DOMAIN set : set[k] = Undef

\* Auction.findById and the checks and assignments of updateAuction, in slot s.
updateAuctionRead(s, u, id, body) ==
  /\ upd[s].pc = "idle"
  /\ \A q \in UpdProcs : q < s => upd[q].pc # "idle"
  /\ InFlight < MaxInFlight
  /\ LET d == UpdateDecide(u, id, body)
     IN IF d.code # 200
        THEN /\ out' = Response("updateAuction", d.code, d.reason, 0)
             /\ upd' = upd
        ELSE /\ out' = NoOut
             /\ upd' = [upd EXCEPT ![s] =
                  [pc |-> "save", user |-> u, auction |-> id, set |-> d.set]]
  /\ UNCHANGED <<now, auctions, bids, nextId, bid, del, like, view>>

\* The update that save() sends: $set of the modified paths.
ApplySet(a, set) ==
  [a EXCEPT !.startingBid = IF set.startingBid # Undef THEN set.startingBid ELSE @,
            !.currentBid = IF set.currentBid # Undef THEN set.currentBid ELSE @,
            !.startTime = IF set.startTime # Undef THEN set.startTime ELSE @,
            !.endTime = IF set.endTime # Undef THEN set.endTime ELSE @]

\* auction.save(): the $set of the modified paths reaches the stored document
\* (nothing is sent when no path is modified), or the document is gone.
updateAuctionSave(s) ==
  /\ upd[s].pc = "save"
  /\ NothingModified(upd[s].set) \/ ~Locked(upd[s].auction)
  /\ IF NothingModified(upd[s].set)
     THEN /\ out' = Response("updateAuction", 200, "OK", 0)
          /\ UNCHANGED <<auctions, bid>>
     ELSE IF Exists(upd[s].auction)
     THEN /\ auctions' = [auctions EXCEPT ![upd[s].auction] = ApplySet(@, upd[s].set)]
          /\ bid' = MarkStale(bid, upd[s].auction, 0)
          /\ out' = Response("updateAuction", 200, "OK", 0)
     ELSE /\ out' = Response("updateAuction", 500, "DocumentNotFound", 0)
          /\ UNCHANGED <<auctions, bid>>
  /\ upd' = [upd EXCEPT ![s] = IdleUpd]
  /\ UNCHANGED <<now, bids, nextId, del, like, view>>

\* updateAuction, one request at a time.
UpdateAuction ==
  \/ \E u \in Users, id \in AuctionIds, body \in UpdateBodies :
       updateAuctionRead(1, u, id, body)
  \/ updateAuctionSave(1)

\* updateAuction, with requests that overlap.
UpdateAuctionConcurrent ==
  \E s \in UpdProcs :
    \/ \E u \in Users, id \in AuctionIds, body \in UpdateBodies :
         updateAuctionRead(s, u, id, body)
    \/ updateAuctionSave(s)

\* --------------------------------------------------------- deleteAuction
DeleteDecide(u, id) ==
  IF ~isValidObjectId(id) THEN [code |-> 400, reason |-> "InvalidId"]
  ELSE IF ~Exists(id) THEN [code |-> 404, reason |-> "NotFound"]
  ELSE
    LET a == auctions[id]
        user == protect(u)
        currentStatus == status(a, now)
    IN IF NotAuthorized(a, user) THEN [code |-> 403, reason |-> "Forbidden"]
       ELSE IF /\ currentStatus \in {"active", "ended"}
               /\ a.bidCount > 0
               /\ ~user.isAdmin
       THEN [code |-> 400, reason |-> "HasBids"]
       ELSE [code |-> 200, reason |-> "OK"]

\* Auction.findById and the checks of deleteAuction.
deleteAuctionRead(u, id) ==
  /\ del.pc = "idle"
  /\ InFlight < MaxInFlight
  /\ LET d == DeleteDecide(u, id)
     IN IF d.code # 200
        THEN /\ out' = Response("deleteAuction", d.code, d.reason, 0)
             /\ del' = IdleDel
        ELSE /\ out' = NoOut
             /\ del' = [pc |-> "delete", user |-> u, auction |-> id]
  /\ UNCHANGED <<now, auctions, bids, nextId, bid, upd, like, view>>

\* Auction.findByIdAndDelete: the auction goes, its Bid records stay.
deleteAuctionDelete ==
  /\ del.pc = "delete"
  /\ ~Locked(del.auction)
  /\ auctions' = [i \in DOMAIN auctions \ {del.auction} |-> auctions[i]]
  /\ bid' = MarkStale(bid, del.auction, 0)
  /\ out' = Response("deleteAuction", 200, "OK", 0)
  /\ del' = IdleDel
  /\ UNCHANGED <<now, bids, nextId, upd, like, view>>

DeleteAuction ==
  \/ \E u \in Users, id \in AuctionIds : deleteAuctionRead(u, id)
  \/ deleteAuctionDelete

\* ----------------------------------------------------- toggleLikeAuction
\* likedBy.some(likerId => likerId.equals(userId)).
IsLiked(a, userId) == \E i \in 1 .. Len(a.likedBy) : a.likedBy[i] = userId

\* Auction.findById and the membership test, in slot s: $pull if liked, else
\* $addToSet.
toggleLikeRead(s, u, id) ==
  /\ like[s].pc = "idle"
  /\ \A q \in LikeProcs : q < s => like[q].pc # "idle"
  /\ InFlight < MaxInFlight
  /\ IF ~isValidObjectId(id)
     THEN out' = Response("toggleLikeAuction", 400, "InvalidId", 0) /\ like' = like
     ELSE IF ~Exists(id)
     THEN out' = Response("toggleLikeAuction", 404, "NotFound", 0) /\ like' = like
     ELSE /\ out' = NoOut
          /\ like' = [like EXCEPT ![s] =
               [pc |-> "write", user |-> u, auction |-> id,
                op |-> IF IsLiked(auctions[id], protect(u).id)
                       THEN "pull" ELSE "addToSet"]]
  /\ UNCHANGED <<now, auctions, bids, nextId, bid, upd, del, view>>

\* $pull removes every occurrence; $addToSet appends unless present.
ApplyLike(a, op, userId) ==
  [a EXCEPT !.likedBy =
     IF op = "pull" THEN SelectSeq(@, LAMBDA x : x # userId)
     ELSE IF \E i \in 1 .. Len(@) : @[i] = userId THEN @
     ELSE Append(@, userId)]

\* Auction.findByIdAndUpdate with the chosen operator, and the 200 response
\* with the message of the chosen branch; the request is then complete.
toggleLikeWrite(s) ==
  /\ like[s].pc = "write"
  /\ ~Locked(like[s].auction)
  /\ IF Exists(like[s].auction)
     THEN LET a2 == ApplyLike(auctions[like[s].auction], like[s].op,
                              protect(like[s].user).id)
          IN /\ auctions' = [auctions EXCEPT ![like[s].auction] = a2]
             /\ bid' = IF a2 # auctions[like[s].auction]
                       THEN MarkStale(bid, like[s].auction, 0) ELSE bid
     ELSE UNCHANGED <<auctions, bid>>
  /\ out' = Response("toggleLikeAuction", 200,
                     IF like[s].op = "pull" THEN "unliked" ELSE "liked", 0)
  /\ like' = [like EXCEPT ![s].pc = "done"]
  /\ UNCHANGED <<now, bids, nextId, upd, del, view>>

\* The completed requests leave: nothing of them is kept.
toggleLikeForget ==
  /\ \E s \in LikeProcs : like[s].pc = "done"
  /\ \A s \in LikeProcs : like[s].pc # "write"
  /\ like' = [s \in LikeProcs |-> IdleLike]
  /\ out' = NoOut
  /\ UNCHANGED <<now, auctions, bids, nextId, bid, upd, del, view>>

\* toggleLikeAuction, one request at a time.
ToggleLikeAuction ==
  \/ \E u \in Likers, id \in AuctionIds : toggleLikeRead(1, u, id)
  \/ toggleLikeWrite(1)
  \/ toggleLikeForget

\* toggleLikeAuction, with requests that overlap.
ToggleLikeAuctionConcurrent ==
  \/ \E s \in LikeProcs :
       \/ \E u \in Likers, id \in AuctionIds : toggleLikeRead(s, u, id)
       \/ toggleLikeWrite(s)
  \/ toggleLikeForget

\* -------------------------------------------------------- getAuctionById
\* The read and the 200 response with the document as read; incrementViews
\* is started and not awaited.
getAuctionById(s, id) ==
  /\ view[s].pc = "idle"
  /\ \A q \in ViewProcs : q < s => view[q].pc # "idle"
  /\ InFlight < MaxInFlight
  /\ IF ~isValidObjectId(id)
     THEN out' = Response("getAuctionById", 400, "InvalidId", 0) /\ view' = view
     ELSE IF ~Exists(id)
     THEN out' = Response("getAuctionById", 404, "NotFound", 0) /\ view' = view
     ELSE /\ out' = Response("getAuctionById", 200, "OK", auctions[id].views)
          /\ view' = [view EXCEPT ![s] =
               [pc |-> "inc", auction |-> id, seen |-> auctions[id].views]]
  /\ UNCHANGED <<now, auctions, bids, nextId, bid, upd, del, like>>

\* incrementViews if it wrote back the count of the document in memory.
incrementViewsFromMemory(s) ==
  /\ view[s].pc = "inc"
  /\ ~Locked(view[s].auction)
  /\ IF Exists(view[s].auction)
     THEN /\ auctions[view[s].auction].views < MaxViews
          /\ auctions' = [auctions EXCEPT ![view[s].auction].views = view[s].seen + 1]
          /\ bid' = MarkStale(bid, view[s].auction, 0)
     ELSE UNCHANGED <<auctions, bid>>
  /\ out' = NoOut
  /\ view' = [view EXCEPT ![s] = IdleView]
  /\ UNCHANGED <<now, bids, nextId, upd, del, like>>

\* incrementViews: updateOne({_id}, {$inc: {views: 1}}); nothing is sent to
\* the caller, who has the response already.
incrementViews(s) ==
  /\ view[s].pc = "inc"
  /\ ~Locked(view[s].auction)
  /\ IF Exists(view[s].auction)
     THEN /\ auctions[view[s].auction].views < MaxViews
          /\ auctions' = [auctions EXCEPT ![view[s].auction].views = @ + 1]
          /\ bid' = MarkStale(bid, view[s].auction, 0)
     ELSE UNCHANGED <<auctions, bid>>
  /\ out' = NoOut
  /\ view' = [view EXCEPT ![s] = IdleView]
  /\ UNCHANGED <<now, bids, nextId, upd, del, like>>

\* incrementViews if its failure reached the caller as a server error.
incrementViewsFailSurfaced(s) ==
  /\ view[s].pc = "inc"
  /\ out' = Response("getAuctionById", 500, "IncrementFailed", 0)
  /\ view' = [view EXCEPT ![s] = IdleView]
  /\ UNCHANGED <<now, auctions, bids, nextId, bid, upd, del, like>>

\* incrementViews throws: the .catch of getAuctionById logs the error.
incrementViewsFail(s) ==
  /\ view[s].pc = "inc"
  /\ out' = Response("console.error", 0, "IncrementFailed", 0)
  /\ view' = [view EXCEPT ![s] = IdleView]
  /\ UNCHANGED <<now, auctions, bids, nextId, bid, upd, del, like>>

\* getAuctionById, one request at a time.
GetAuctionById ==
  \/ \E id \in AuctionIds : getAuctionById(1, id)
  \/ incrementViews(1)
  \/ incrementViewsFail(1)

\* getAuctionById, with increments that overlap.
GetAuctionByIdConcurrent ==
  \E s \in ViewProcs :
    \/ \E id \in AuctionIds : getAuctionById(s, id)
    \/ incrementViews(s)
    \/ incrementViewsFail(s)

\* Bidding, with the operations that create, change and remove auctions.
Next ==
  \/ Tick
  \/ CreateAuction
  \/ PlaceBid
  \/ UpdateAuction
  \/ DeleteAuction

Spec == Init /\ [][Next]_vars

\* Bidding, with likes and view counting on the side.
NextSide ==
  \/ Tick
  \/ CreateAuction
  \/ PlaceBid
  \/ ToggleLikeAuction
  \/ GetAuctionById

SpecSide == Init /\ [][NextSide]_vars

\* Auction management alone, with updateAuction requests that overlap.
NextManage ==
  \/ Tick
  \/ CreateAuction
  \/ UpdateAuctionConcurrent
  \/ DeleteAuction

SpecManage == Init /\ [][NextManage]_vars

\* Likes and view counting with requests that overlap, and updates.
NextReads ==
  \/ Tick
  \/ CreateAuction
  \/ ToggleLikeAuctionConcurrent
  \/ GetAuctionByIdConcurrent
  \/ UpdateAuction

SpecReads == Init /\ [][NextReads]_vars

\* ----------------------------------------------------------------- routing
\* A request path is the sequence of its segments; an id travels as a string.
\* The path the client's bidService posts a bid to.
ClientBidPath(id) == <<"api", "auctions", ToString(id), "bids">>

\* A route parameter as the handler's id: the id whose string it is, or, for
\* a missing parameter or any other string, a value that is not a valid id.
ParamId(seg) ==
  IF \E id \in AuctionIds : ToString(id) = seg
  THEN CHOOSE id \in AuctionIds : ToString(id) = seg
  ELSE BadId

NoRoute == [handler |-> "none", id |-> BadId]

\* routes/auctionRoutes.js, on the path below its mount point; the first
\* route that matches method and path takes the request.
auctionRoutes(method, rest) ==
  IF method = "GET" /\ Len(rest) = 0 THEN [handler |-> "listAuctions", id |-> BadId]
  ELSE IF method = "GET" /\ Len(rest) = 1
       THEN [handler |-> "getAuctionById", id |-> ParamId(rest[1])]
  ELSE IF method = "POST" /\ Len(rest) = 0
       THEN [handler |-> "createAuction", id |-> BadId]
  ELSE IF method = "PUT" /\ Len(rest) = 1
       THEN [handler |-> "updateAuction", id |-> ParamId(rest[1])]
  ELSE IF method = "DELETE" /\ Len(rest) = 1
       THEN [handler |-> "deleteAuction", id |-> ParamId(rest[1])]
  ELSE IF method = "PATCH" /\ Len(rest) = 2 /\ rest[2] = "like"
       THEN [handler |-> "toggleLikeAuction", id |-> ParamId(rest[1])]
  ELSE NoRoute

\* routes/bidRoutes.js, on the path below its mount point: no route has a
\* parameter, and the mount path has none to merge.
bidRoutes(method, rest) ==
  IF method = "POST" /\ Len(rest) = 0 THEN [handler |-> "placeBid", id |-> BadId]
  ELSE IF method = "GET" /\ Len(rest) = 0
       THEN [handler |-> "getBidsForAuction", id |-> BadId]
  ELSE IF method = "GET" /\ Len(rest) = 1 /\ rest[1] = "me"
       THEN [handler |-> "getMyBids", id |-> BadId]
  ELSE NoRoute

\* The mounts of the app: /api/auctions/ and /api/bids/; a request that no
\* router takes ends as the framework's 404.
Route(method, path) ==
  IF Len(path) >= 2 /\ path[1] = "api" /\ path[2] = "auctions"
  THEN auctionRoutes(method, SubSeq(path, 3, Len(path)))
  ELSE IF Len(path) >= 2 /\ path[1] = "api" /\ path[2] = "bids"
  THEN bidRoutes(method, SubSeq(path, 3, Len(path)))
  ELSE NoRoute

\* The requests the model sends through the router.
Requests ==
  {[method |-> "POST", path |-> ClientBidPath(id)] : id \in AuctionIds}
  \cup {[method |-> "POST", path |-> <<"api", "bids">>]}
  \cup {[method |-> "DELETE", path |-> <<"api", "auctions", ToString(id)>>] :
          id \in AuctionIds}

\* A request arrives: the router hands it to its handler, or answers 404.
HttpRequest(req, u, amt) ==
  LET r == Route(req.method, req.path)
  IN IF r.handler = "placeBid" THEN placeBidRead(1, u, r.id, amt)
     ELSE IF r.handler = "deleteAuction" THEN deleteAuctionRead(u, r.id)
     ELSE /\ out' = Response(req.method, 404, "Unrouted", 0)
          /\ UNCHANGED <<now, auctions, bids, nextId, bid, upd, del, like, view>>

\* Bids and deletions as they arrive over HTTP.
NextRoute ==
  \/ Tick
  \/ CreateAuction
  \/ \E req \in Requests, u \in Users, amt \in Amounts : HttpRequest(req, u, amt)
  \/ deleteAuctionDelete

SpecRoute == Init /\ [][NextRoute]_vars

\* ------------------------------------------------------ the status virtual
\* The status getter on its own: a document with any valid pair of dates,
\* read at any instant of the clock.
InitStatus ==
  /\ now = 0
  /\ auctions = <<>>
  /\ bids = <<>>
  /\ nextId = 1
  /\ bid = [p \in Procs |-> IdleBid]
  /\ upd = [s \in UpdProcs |-> IdleUpd]
  /\ del = IdleDel
  /\ like = [s \in LikeProcs |-> IdleLike]
  /\ view = [s \in ViewProcs |-> IdleView]
  /\ out = NoOut

\* A document whose startTime and endTime are st < et.
StatusSetDates(st, et) ==
  /\ st < et
  /\ auctions' = (1 :> NewAuction("u1", 50, st, et))
  /\ out' = NoOut
  /\ UNCHANGED <<now, bids, nextId, bid, upd, del, like, view>>

StatusTick ==
  /\ now < MaxClock
  /\ now' = now + 1
  /\ out' = NoOut
  /\ UNCHANGED <<auctions, bids, nextId, bid, upd, del, like, view>>

\* auction.status is read.
StatusGet ==
  /\ Exists(1)
  /\ out' = Response("status", 200, status(auctions[1], now), 0)
  /\ UNCHANGED <<now, auctions, bids, nextId, bid, upd, del, like, view>>

NextStatus ==
  \/ \E st \in 0 .. MaxClock, et \in 0 .. MaxClock : StatusSetDates(st, et)
  \/ StatusTick
  \/ StatusGet

SpecStatus == InitStatus /\ [][NextStatus]_vars

\* ================================================================ claims
Max(S) == CHOOSE x \in S : \A y \in S : y <= x

Amounts_On(id) == {BidsOn(id)[i].amount : i \in 1 .. Len(BidsOn(id))}

\* C1: in every committed state each auction's currentBid is the maximum
\* amount among its Bid records, or its startingBid when it has none, and its
\* highestBidder is the bidder of that maximal Bid.
C1_CurrentBidIsMaxBid ==
  \A id \in DOMAIN auctions :
    LET a == auctions[id]
        bs == BidsOn(id)
    IN IF Len(bs) = 0
       THEN a.currentBid = a.startingBid
       ELSE /\ a.currentBid = Max(Amounts_On(id))
            /\ \E i \in 1 .. Len(bs) :
                 bs[i].amount = a.currentBid /\ bs[i].bidder = a.highestBidder

\* C2: in every committed state, every existing auction's bidCount is
\* exactly the number of Bid records that reference it.
C2_BidCountIsNumberOfBids ==
  \A id \in DOMAIN auctions : auctions[id].bidCount = Len(BidsOn(id))

\* A bid is committed and counted while another transaction has its own
\* update and insert staged, not yet visible.
C2_Witness ==
  \E id \in DOMAIN auctions :
    /\ auctions[id].bidCount = 1
    /\ Len(BidsOn(id)) = 1
    /\ \E p \in Procs : LockedBy(p, id)

\* C3: for every auction the amounts of its committed Bid records are
\* strictly increasing in commit order, whatever the interleaving.
C3_AmountsIncreaseInCommitOrder ==
  \A id \in AuctionIds :
    \A i, j \in 1 .. Len(BidsOn(id)) :
      i < j => BidsOn(id)[i].amount < BidsOn(id)[j].amount

\* A transaction validated against a currentBid that a later commit has
\* overtaken: its amount is no longer above the committed currentBid.
C3_Witness ==
  \E p \in Procs :
    /\ bid[p].pc = "validated"
    /\ bid[p].stale
    /\ Exists(bid[p].auction)
    /\ bid[p].amount <= auctions[bid[p].auction].currentBid
    /\ bid[p].amount > bid[p].cur

\* C4: two bidders, neither the seller, bid 100 and 150 concurrently on an
\* auction whose currentBid is 50; once both requests have completed (without
\* a storage failure) the auction has currentBid 150 and the bidder of 150 as
\* highestBidder.
C4_HigherConcurrentBidWins ==
  [][\A p \in Procs :
       LET id == bid[p].auction
           bidder150 == protect(bid[p].user).id
       IN (/\ bid[p].pc \in {"validated", "written"}
           /\ bid[p].amount = 150
           /\ bid[p].cur = 50
           /\ bid'[p].pc = "idle"
           /\ \A q \in Procs : bid'[q].pc = "idle"
           /\ out'.reason \notin {"UpdateFailed", "CommitFailed"}
           /\ id \in DOMAIN auctions'
           /\ ~StrictEq(auctions'[id].seller, bidder150)
           /\ \E i \in 1 .. Len(bids') :
                /\ bids'[i].auction = id
                /\ bids'[i].amount = 100
                /\ bids'[i].bidder # bidder150
                /\ bids'[i].bidder # auctions'[id].seller)
          => /\ auctions'[id].currentBid = 150
             /\ auctions'[id].highestBidder = bidder150]_vars

\* C5: a transaction that read the auction before a higher bid committed and
\* reaches its write after that commit ends with the BidTooLow rejection, 400
\* carrying the current bid.
C5_StaleBidEndsBidTooLow ==
  [][\A p \in Procs :
       (/\ bid[p].pc = "validated"
        /\ bid[p].stale
        /\ Exists(bid[p].auction)
        /\ auctions[bid[p].auction].currentBid >= bid[p].amount
        /\ bid'[p].pc # "validated"
        /\ out'.reason # "UpdateFailed")
       => out' = Response("placeBid", 400, "BidTooLow",
                          auctions[bid[p].auction].currentBid)]_vars

\* C6: when placeBid fails once its write phase has begun (the update, the
\* insert or the commit), the stored auctions and bids are what they were:
\* nothing the transaction staged is ever visible.
C6_FailureRollsBack ==
  [][/\ (out'.op = "placeBid" /\ out'.code = 500) => (auctions' = auctions /\ bids' = bids)
     /\ \A p \in Procs :
          (bid[p].pc = "validated" /\ bid'[p].pc = "written")
            => (auctions' = auctions /\ bids' = bids)]_vars

\* The commit of a transaction with both writes staged has failed and the
\* auction still has no bid.
C6_Witness ==
  /\ out = Response("placeBid", 500, "CommitFailed", 0)
  /\ \E id \in DOMAIN auctions :
       auctions[id].bidCount = 0 /\ auctions[id].currentBid = auctions[id].startingBid
  /\ bids = <<>>

\* C7: a placeBid request that is rejected (400, 403, 404) leaves every
\* auction and the Bid records unchanged.
C7_RejectionChangesNothing ==
  [][(out'.op = "placeBid" /\ out'.code \in {400, 403, 404})
       => (auctions' = auctions /\ bids' = bids)]_vars

\* A bid of at most the current bid 50 was rejected as too low.
C7_Witness ==
  /\ out = Response("placeBid", 400, "BidTooLow", 50)
  /\ \E id \in DOMAIN auctions : auctions[id].currentBid = 50 /\ auctions[id].bidCount = 0

\* C8: placeBid lets a bid through only when its amount is strictly above the
\* currentBid read in the transaction; a request that reaches the amount test
\* with amount <= currentBid is rejected as BidTooLow, and a BidTooLow
\* rejection carries the currentBid it was compared against.
C8_StrictlyAboveCurrentBid ==
  /\ [](\A u \in Users, id \in DOMAIN auctions, amt \in Amounts :
          LET a == auctions[id]
              r == Validate(u, id, amt)
              open == now >= a.startTime /\ now < a.endTime
          IN /\ r = NoOut => amt > a.currentBid
             /\ r.reason = "BidTooLow"
                  => (amt <= a.currentBid /\ r.code = 400 /\ r.val = a.currentBid)
             /\ (amt > 0 /\ open /\ a.seller # protect(u).id /\ amt <= a.currentBid)
                  => r.reason = "BidTooLow")
  /\ [][\A p \in Procs :
          (bid[p].pc = "idle" /\ bid'[p].pc = "validated")
          => /\ Exists(bid'[p].auction)
             /\ bid'[p].amount > auctions[bid'[p].auction].currentBid
             /\ bid'[p].cur = auctions[bid'[p].auction].currentBid
             /\ out' = NoOut]_vars

\* A bid was rejected as too low against a current bid that an earlier bid set.
C8_Witness ==
  /\ out = Response("placeBid", 400, "BidTooLow", 100)
  /\ \E id \in DOMAIN auctions : auctions[id].currentBid = 100 /\ auctions[id].bidCount = 1

\* C9: no Bid record has as bidder the seller of its auction (a seller's bid
\* on the own auction is always rejected with 403).
C9_NoBidBySeller ==
  \A i \in 1 .. Len(bids) :
    Exists(bids[i].auction) => bids[i].bidder # auctions[bids[i].auction].seller

\* C10: a placeBid request that reaches the status test on an auction that is
\* upcoming or ended is rejected with 400 naming that status, and changes no
\* stored state.
C10_ClosedAuctionRejectsBid ==
  /\ [](\A u \in Users, id \in DOMAIN auctions, amt \in Amounts :
          LET a == auctions[id]
          IN (amt > 0 /\ ~IsSellerBidding(a, protect(u).id))
             => /\ now < a.startTime
                     => Validate(u, id, amt) = Response("placeBid", 400, "upcoming", 0)
                /\ now >= a.endTime
                     => Validate(u, id, amt) = Response("placeBid", 400, "ended", 0))
  /\ [][(out'.op = "placeBid" /\ out'.reason \in {"upcoming", "ended"})
          => /\ auctions' = auctions /\ bids' = bids
             /\ \A p \in Procs : bid[p].pc = "idle" => bid'[p].pc = "idle"
             /\ \E id \in DOMAIN auctions :
                  IF out'.reason = "upcoming" THEN now < auctions[id].startTime
                  ELSE now >= auctions[id].endTime]_vars

\* A bid on an ended auction that already has a bid was rejected.
C10_Witness ==
  /\ out = Response("placeBid", 400, "ended", 0)
  /\ \E id \in DOMAIN auctions : now >= auctions[id].endTime /\ auctions[id].bidCount = 1

\* C11: placeBid reports the first failing precondition in the order NotFound,
\* Forbidden (the bidder is the seller), InvalidState (status), BidTooLow
\* (amount <= currentBid), BidTooLow (first bid below startingBid): for every
\* well-formed request the rejection reason is that of the earliest
\* precondition the request violates.
C11_FirstFailingPreconditionReported ==
  \A u \in Users, id \in AuctionIds, amt \in Amounts :
    amt > 0 =>
      Validate(u, id, amt).reason =
        IF id \notin DOMAIN auctions THEN "NotFound"
        ELSE IF auctions[id].seller = protect(u).id THEN "Forbidden"
        ELSE IF now < auctions[id].startTime THEN "upcoming"
        ELSE IF now >= auctions[id].endTime THEN "ended"
        ELSE IF amt <= auctions[id].currentBid THEN "BidTooLow"
        ELSE IF auctions[id].bidCount = 0 /\ amt < auctions[id].startingBid
             THEN "BelowStartingBid"
        ELSE "none"

\* C12: for valid startTime < endTime and any instant now, the derived status
\* is upcoming iff now < startTime, ended iff now >= endTime, ending-soon iff
\* startTime <= now < endTime with less than one hour left, and active iff
\* startTime <= now < endTime with one hour or more left; exactly one of the
\* four holds.
C12_StatusDerivation ==
  out.op = "status" =>
    LET a == auctions[1]
        left == (a.endTime - now) * TickMs
        open == a.startTime <= now /\ now < a.endTime
        s == out.reason
    IN /\ s \in {"upcoming", "ended", "ending-soon", "active"}
       /\ s = "upcoming" <=> now < a.startTime
       /\ s = "ended" <=> now >= a.endTime
       /\ s = "ending-soon" <=> (open /\ left < 3600000)
       /\ s = "active" <=> (open /\ left >= 3600000)

\* The status was read with exactly one hour left and is active.
C12_Witness ==
  /\ out = Response("status", 200, "active", 0)
  /\ (auctions[1].endTime - now) * TickMs = 3600000
  /\ now = auctions[1].startTime

\* C13: in every reachable state every auction has currentBid >= startingBid,
\* across creation, bids and accepted updates of startingBid.
C13_CurrentBidAtLeastStartingBid ==
  \A id \in DOMAIN auctions : auctions[id].currentBid >= auctions[id].startingBid

\* C14: in every reachable state every auction has a non-null highestBidder
\* if and only if its bidCount is above 0.
C14_HighestBidderIffBids ==
  \A id \in DOMAIN auctions :
    auctions[id].highestBidder # NullId <=> auctions[id].bidCount > 0

\* A second bid has just been committed: the auction has a bidder and two bids.
C14_Witness ==
  /\ out.op = "placeBid" /\ out.code = 201
  /\ \E id \in DOMAIN auctions :
       /\ auctions[id].bidCount = 2
       /\ auctions[id].highestBidder \in {Oid(u) : u \in Users}

\* C15: the stored currentBid of an auction never decreases, whatever step is
\* taken (bid commit or abort, update, delete of another document, clock).
C15_CurrentBidNeverDecreases ==
  [][\A id \in DOMAIN auctions :
       id \in DOMAIN auctions' => auctions'[id].currentBid >= auctions[id].currentBid]_vars

\* An update has changed the startingBid of an auction whose currentBid a bid
\* had raised: the currentBid is still the bid's amount.
C15_Witness ==
  /\ out = Response("updateAuction", 200, "OK", 0)
  /\ \E id \in DOMAIN auctions :
       /\ auctions[id].bidCount = 1
       /\ auctions[id].currentBid = 100
       /\ auctions[id].startingBid = 120

\* C16: an updateAuction or deleteAuction request from a user who is neither
\* the auction's seller nor an admin is rejected with 403 and leaves the
\* auction unchanged; no auction is modified or removed through these
\* operations by such a user.
C16_StrangerCannotUpdateOrDelete ==
  /\ [](\A u \in Users, id \in DOMAIN auctions :
          (auctions[id].seller # Oid(u) /\ ~IsAdminUser(u))
          => /\ DeleteDecide(u, id).code = 403
             /\ \A body \in UpdateBodies : UpdateDecide(u, id, body).code = 403)
  /\ [][/\ (out'.op \in {"updateAuction", "deleteAuction"} /\ out'.code = 403)
             => (auctions' = auctions /\ bids' = bids /\ upd' = upd /\ del' = del)
        /\ \A s \in UpdProcs :
             (upd[s].pc = "save" /\ upd'[s].pc = "idle" /\ auctions' # auctions)
             => \/ auctions[upd[s].auction].seller = Oid(upd[s].user)
                \/ IsAdminUser(upd[s].user)
        /\ (del.pc = "delete" /\ del'.pc = "idle" /\ auctions' # auctions)
             => \/ auctions[del.auction].seller = Oid(del.user)
                \/ IsAdminUser(del.user)]_vars

\* A delete request on an admin's auction was rejected with 403: the requester
\* is not an admin, so neither the seller nor an admin.
C16_Witness ==
  /\ out = Response("deleteAuction", 403, "Forbidden", 0)
  /\ \E id \in DOMAIN auctions : auctions[id].seller = Oid("adm")

\* C17: a deleteAuction request by the auction's own seller, not an admin, on
\* an auction with bidCount = 0 and status upcoming is accepted (and so
\* removes the auction).
C17_SellerDeletesUpcomingAuction ==
  \A u \in Users, id \in DOMAIN auctions :
    (/\ auctions[id].seller = Oid(u)
     /\ ~IsAdminUser(u)
     /\ auctions[id].bidCount = 0
     /\ now < auctions[id].startTime)
    => DeleteDecide(u, id).code = 200

\* C18: a deleteAuction request by a non-admin on an auction that has at
\* least one bid and whose window has opened (active, ending-soon or ended)
\* is rejected and the auction stays stored; only an admin deletes such an
\* auction.
C18_ContestedAuctionKeptFromNonAdmin ==
  /\ [](\A u \in Users, id \in DOMAIN auctions :
          (/\ ~IsAdminUser(u)
           /\ auctions[id].bidCount >= 1
           /\ now >= auctions[id].startTime)
          => DeleteDecide(u, id).code \in {400, 403})
  /\ [][/\ (out'.op = "deleteAuction" /\ out'.code \in {400, 403})
             => (auctions' = auctions /\ del' = del)
        /\ (/\ del.pc = "delete" /\ del'.pc = "idle"
            /\ del.auction \in DOMAIN auctions
            /\ del.auction \notin DOMAIN auctions'
            /\ auctions[del.auction].bidCount >= 1
            /\ now >= auctions[del.auction].startTime)
             => IsAdminUser(del.user)]_vars

\* A delete request on an open auction with a bid was rejected; the auction
\* and its bid are still stored.
C18_Witness ==
  /\ out.op = "deleteAuction" /\ out.code \in {400, 403}
  /\ \E id \in DOMAIN auctions :
       /\ auctions[id].bidCount = 1
       /\ now >= auctions[id].startTime
       /\ Len(BidsOn(id)) = 1

\* C19: whenever an accepted updateAuction changes startingBid on an auction
\* with bidCount = 0, the stored currentBid after the update equals the new
\* startingBid; and a non-admin's change of startingBid is never applied once
\* the auction has started or has bids.
C19_StartingBidChangeResetsCurrentBid ==
  [][\A s \in UpdProcs :
       LET id == upd[s].auction
       IN (/\ upd[s].pc = "save" /\ upd'[s].pc = "idle"
           /\ id \in DOMAIN auctions /\ id \in DOMAIN auctions'
           /\ auctions'[id].startingBid # auctions[id].startingBid)
          => /\ auctions[id].bidCount = 0
                  => auctions'[id].currentBid = auctions'[id].startingBid
             /\ ~IsAdminUser(upd[s].user)
                  => (auctions[id].bidCount = 0 /\ now < auctions[id].startTime)]_vars

\* C20: no updateAuction by a non-admin changes startTime or endTime unless
\* the auction is upcoming, and after every accepted create or update the
\* stored auction has endTime > startTime.
C20_DatesStayOrdered ==
  /\ [](\A id \in DOMAIN auctions : auctions[id].endTime > auctions[id].startTime)
  /\ [][\A s \in UpdProcs :
          LET id == upd[s].auction
          IN (/\ upd[s].pc = "idle" /\ upd'[s].pc = "save"
              /\ ~IsAdminUser(upd'[s].user)
              /\ \/ upd'[s].set.startTime # Undef
                 \/ upd'[s].set.endTime # Undef)
             => now < auctions[upd'[s].auction].startTime]_vars

\* C23: for every bid that getMyBids returns to caller u, isHighestBidder is
\* true exactly when the bid's auction still exists and its highestBidder is u.
C23_IsHighestBidderFlag ==
  \A u \in Users :
    \A i \in 1 .. Len(getMyBids(u)) :
      LET e == getMyBids(u)[i]
      IN e.isHighestBidder <=>
           (/\ e.bid.auction \in DOMAIN auctions
            /\ auctions[e.bid.auction].highestBidder = Oid(u))

\* C27: at the step that commits a bid the auction's derived status, at that
\* instant and with its stored dates, is active or ending-soon.
C27_CommitOnlyWhileOpen ==
  [][\A p \in Procs :
       (bid[p].pc = "written" /\ Len(bids') = Len(bids) + 1 /\ bid'[p].pc = "idle")
       => /\ bid[p].auction \in DOMAIN auctions'
          /\ status(auctions'[bid[p].auction], now) \in {"active", "ending-soon"}]_vars

\* C30: in every reachable state every Bid record references an auction that
\* is still stored.
C30_NoOrphanBids ==
  \A i \in 1 .. Len(bids) : bids[i].auction \in DOMAIN auctions

C28_StatusOnlyMovesForward ==
  [][(1 \in DOMAIN auctions /\ auctions' = auctions /\ now' > now)
       => LET rank == [s \in {"upcoming", "active", "ending-soon", "ended"} |->
                         IF s = "upcoming" THEN 0 ELSE IF s = "active" THEN 1
                         ELSE IF s = "ending-soon" THEN 2 ELSE 3]
          IN /\ rank[status(auctions[1], now')] >= rank[status(auctions[1], now)]
             /\ status(auctions[1], now) = "ended" => status(auctions[1], now') = "ended"]_vars

\* The status was read after the end and is ended; before the last tick it
\* was ended already.
C28_Witness ==
  /\ out = Response("status", 200, "ended", 0)
  /\ now > auctions[1].endTime
  /\ auctions[1].endTime - auctions[1].startTime >= 3

\* C21: once two toggleLikeAuction requests by the same user on the same
\* auction have both completed, one after the other or overlapping, the
\* user's membership in likedBy is what it was before the two requests (what
\* the first of them read), and the user is never in likedBy more than once.
C21_DoubleToggleRestoresMembership ==
  /\ \A id \in DOMAIN auctions, u \in Users :
       Cardinality({i \in 1 .. Len(auctions[id].likedBy) :
                      auctions[id].likedBy[i] = Oid(u)}) <= 1
  /\ (/\ like[1].pc = "done" /\ like[2].pc = "done"
      /\ like[1].user = like[2].user
      /\ like[1].auction = like[2].auction
      /\ like[1].auction \in DOMAIN auctions)
     => (IsLiked(auctions[like[1].auction], Oid(like[1].user))
           <=> like[1].op = "pull")

\* C22: getAuctionById answers 200 with the auction as soon as it has read
\* it, before the view increment has ended; the end of the increment, success
\* or failure, sends the caller nothing.
C22_ResponseIndependentOfIncrement ==
  [][\A s \in ViewProcs :
       /\ (view[s].pc = "idle" /\ view'[s].pc = "inc")
            => /\ view'[s].auction \in DOMAIN auctions
               /\ out' = Response("getAuctionById", 200, "OK",
                                  auctions[view'[s].auction].views)
       /\ (view[s].pc = "inc" /\ view'[s].pc = "idle")
            => (out'.op # "getAuctionById" /\ out'.code \notin 400 .. 599)]_vars

\* An increment has failed: it was logged, and the view count is unchanged.
C22_Witness ==
  /\ out = Response("console.error", 0, "IncrementFailed", 0)
  /\ \E id \in DOMAIN auctions : auctions[id].views = 0

\* C24: each view increment that succeeds raises the stored views by exactly
\* one and leaves every other field of the auction as it is, whatever else
\* is in flight, and no other step changes views: N successful increments
\* raise views by exactly N.
C24_ViewIncrementsAtomic ==
  [][\A id \in DOMAIN auctions :
       id \in DOMAIN auctions' =>
         IF \E s \in ViewProcs :
              /\ view[s].pc = "inc" /\ view'[s].pc = "idle"
              /\ view[s].auction = id
              /\ out'.op # "console.error"
         THEN auctions'[id] = [auctions[id] EXCEPT !.views = @ + 1]
         ELSE auctions'[id].views = auctions[id].views]_vars

\* One of two overlapping increments has landed; the other, started from the
\* same count, is still pending.
C24_Witness ==
  \E s \in ViewProcs :
    /\ view[s].pc = "inc"
    /\ view[s].auction \in DOMAIN auctions
    /\ view[s].seen = 0
    /\ auctions[view[s].auction].views = 1

\* C26: for every stored auction id, a POST to /api/auctions/{id}/bids, the
\* path the client's bidService uses, is dispatched to placeBid with
\* auctionId = id (so it is neither unrouted nor rejected for a missing id).
C26_ClientBidPathReachesPlaceBid ==
  \A id \in DOMAIN auctions :
    /\ Route("POST", ClientBidPath(id)) = [handler |-> "placeBid", id |-> id]
    /\ ~(out.op = "POST" /\ out.code = 404)

\* C29: every auction that listAuctions returns for a status filter S among
\* upcoming, active, ending-soon, ended has derived status S at query time.
C29_ListedStatusMatchesFilter ==
  \A S \in {"upcoming", "active", "ending-soon", "ended"}, sortBy \in BOOLEAN :
    \A id \in listAuctions(S, sortBy).data : status(auctions[id], now) = S

====
